---- MODULE Spec2Model ----
(***************************************************************************)
(* Model of the Smart Boat NMEA-0183 serial integration                    *)
(* (custom_components/smart0183serial/sensor.py).                          *)
(*                                                                         *)
(* Text that the code slices, splits or parses (lines, fields, unit hints) *)
(* is a sequence of one-character strings; text that is only concatenated  *)
(* and compared (dictionary keys, descriptions) is a TLA+ string.  Time is *)
(* the wall clock in whole seconds.                                        *)
(***************************************************************************)
EXTENDS Integers, Sequences, FiniteSets, TLC

\* ---------------------------------------------------------------------
\* Program constants
\* ---------------------------------------------------------------------
\* min_interval = timedelta(seconds=5)
MinInterval == 5

\* the window written as timedelta(hours=4)
StaleWindow_Hours == 4 * 60 * 60

\* timedelta(minutes=4), in seconds
StaleWindow == 240

\* asyncio.sleep(300) in update_sensor_availability
SweepPeriod == 300

\* asyncio.sleep(5) in _handle_error
ErrorSleep == 5

\* ---------------------------------------------------------------------
\* Bounds of the model
\* ---------------------------------------------------------------------
MaxTime == 600

\* ---------------------------------------------------------------------
\* Python text primitives
\* ---------------------------------------------------------------------
None == <<"None">>

\* LET x == v IN F(x), with v evaluated once
Let(v, F(_)) == F(v)

Min(a, b) == IF a < b THEN a ELSE b

Max(a, b) == IF a > b THEN a ELSE b

RECURSIVE StrAt(_, _)
StrAt(s, i) == IF i > Len(s) THEN "" ELSE s[i] \o StrAt(s, i + 1)

\* the characters of s as one string
Str(s) == StrAt(s, 1)

\* s[a:b] for 0 <= a, 0 <= b
Slice(s, a, b) == SubSeq(s, a + 1, Min(b, Len(s)))

\* s[a:] for 0 <= a
SliceFrom(s, a) == SubSeq(s, a + 1, Len(s))

\* s[-n:] for n > 0
LastN(s, n) == SubSeq(s, Max(Len(s) - n, 0) + 1, Len(s))

\* s[:-n] for n > 0
DropLastN(s, n) == SubSeq(s, 1, Len(s) - n)

StartsWith(s, p) == Len(s) >= Len(p) /\ SubSeq(s, 1, Len(p)) = p

\* sub in s
Contains(s, sub) ==
    \E i \in 0..(Len(s) - Len(sub)) : SubSeq(s, i + 1, i + Len(sub)) = sub

\* s.replace(a, b) for single characters a, b
Replace(s, a, b) == [i \in 1..Len(s) |-> IF s[i] = a THEN b ELSE s[i]]

Whitespace == {" ", "\t", "\n", "\r"}

\* the first index from i upwards that holds no whitespace
RECURSIVE InkFrom(_, _)
InkFrom(s, i) ==
    IF i <= Len(s) /\ s[i] \in Whitespace THEN InkFrom(s, i + 1) ELSE i

\* the last index from i downwards that holds no whitespace
RECURSIVE InkUpTo(_, _)
InkUpTo(s, i) ==
    IF i >= 1 /\ s[i] \in Whitespace THEN InkUpTo(s, i - 1) ELSE i

\* s.strip()
Strip(s) == SubSeq(s, InkFrom(s, 1), InkUpTo(s, Len(s)))

\* s.split(sep): always at least one token
RECURSIVE SplitAt(_, _, _, _)
SplitAt(s, sep, start, i) ==
    IF i > Len(s) THEN <<SubSeq(s, start, Len(s))>>
    ELSE IF s[i] = sep
    THEN <<SubSeq(s, start, i - 1)>> \o SplitAt(s, sep, i + 1, i + 1)
    ELSE SplitAt(s, sep, start, i + 1)

Split(s, sep) == SplitAt(s, sep, 1, 1)

LowerChars == <<"a", "b", "c", "d", "e", "f", "g", "h", "i", "j", "k", "l", "m",
                "n", "o", "p", "q", "r", "s", "t", "u", "v", "w", "x", "y", "z">>

UpperChars == <<"A", "B", "C", "D", "E", "F", "G", "H", "I", "J", "K", "L", "M",
                "N", "O", "P", "Q", "R", "S", "T", "U", "V", "W", "X", "Y", "Z">>

\* c translated from the alphabet from to the alphabet to
MapChar(c, from, to) ==
    IF \E i \in 1..Len(from) : from[i] = c
    THEN to[CHOOSE i \in 1..Len(from) : from[i] = c]
    ELSE c

UpperChar(c) == MapChar(c, LowerChars, UpperChars)

\* s.upper()
Upper(s) == [i \in 1..Len(s) |-> UpperChar(s[i])]

DigitChars == <<"0", "1", "2", "3", "4", "5", "6", "7", "8", "9">>

IsDigitChar(c) ==
    c \in {"0", "1", "2", "3", "4", "5", "6", "7", "8", "9"}

DigitVal(c) ==
    CASE c = "0" -> 0 [] c = "1" -> 1 [] c = "2" -> 2 [] c = "3" -> 3
      [] c = "4" -> 4 [] c = "5" -> 5 [] c = "6" -> 6 [] c = "7" -> 7
      [] c = "8" -> 8 [] c = "9" -> 9

\* s.isdigit()
IsDigit(s) == s # <<>> /\ \A i \in 1..Len(s) : IsDigitChar(s[i])

RECURSIVE DigitsValTo(_, _)
DigitsValTo(s, n) ==
    IF n = 0 THEN 0 ELSE 10 * DigitsValTo(s, n - 1) + DigitVal(s[n])

DigitsVal(s) == DigitsValTo(s, Len(s))

RECURSIVE Pow10(_)
Pow10(n) == IF n = 0 THEN 1 ELSE 10 * Pow10(n - 1)

\* int(s): the text is stripped, then must be decimal digits (the model's
\* alphabet has no sign and no underscore); ok = FALSE stands for ValueError
ParseInt(s) ==
    Let(Strip(s),
        LAMBDA t : IF IsDigit(t) THEN [ok |-> TRUE, val |-> DigitsVal(t)]
                   ELSE [ok |-> FALSE, val |-> 0])

\* float(s) as the exact fraction num / 10^scale: digits with at most one point
\* and at least one digit (the model's alphabet has no sign, no exponent and
\* none of inf / nan); ok = FALSE stands for ValueError
ParseFloat(s) ==
    Let(Split(Strip(s), "."),
        LAMBDA parts :
            Let(IF Len(parts) = 2 THEN parts[2] ELSE <<>>,
                LAMBDA fp :
                    IF /\ Len(parts) <= 2
                       /\ parts[1] \o fp # <<>>
                       /\ \A i \in 1..Len(parts[1]) : IsDigitChar(parts[1][i])
                       /\ \A i \in 1..Len(fp) : IsDigitChar(fp[i])
                    THEN [ok    |-> TRUE,
                          num   |-> DigitsVal(parts[1]) * Pow10(Len(fp)) + DigitsVal(fp),
                          scale |-> Len(fp)]
                    ELSE [ok |-> FALSE, num |-> 0, scale |-> 0]))

\* round(n / d, 0) for n >= 0, d > 0: ties go to the even neighbour
RoundHalfEven(n, d) ==
    IF 2 * (n % d) < d THEN n \div d
    ELSE IF 2 * (n % d) > d THEN (n \div d) + 1
    ELSE IF (n \div d) % 2 = 0 THEN n \div d ELSE (n \div d) + 1

\* ---------------------------------------------------------------------
\* translate_unit
\* ---------------------------------------------------------------------
\* the lookup without upper()
translate_unit_CaseSensitive(unit_of_measurement) ==
    IF unit_of_measurement = None THEN None
    ELSE IF unit_of_measurement = <<"N">> THEN <<"k", "n">>
    ELSE IF unit_of_measurement = <<"K">> THEN <<"k", "n">>
    ELSE IF unit_of_measurement = <<"M">> THEN <<"m", "/", "s">>
    ELSE unit_of_measurement

translate_unit(unit_of_measurement) ==
    IF unit_of_measurement = None THEN None
    ELSE Let(Upper(unit_of_measurement),
             LAMBDA u : IF u = <<"N">> THEN <<"k", "n">>
                        ELSE IF u = <<"K">> THEN <<"k", "n">>
                        ELSE IF u = <<"M">> THEN <<"m", "/", "s">>
                        ELSE u)

\* ---------------------------------------------------------------------
\* convert_latitude / convert_longitude
\* The result is round(decimal_degrees, 6) in units of 10^-6 degree, computed
\* on the exact fraction degrees + minutes / 60.
\* ---------------------------------------------------------------------
\* minutes / 60 in units of 10^-6 degree is num * 10^6 / (60 * 10^scale)
\* = num * 5 * 10^(4 - scale) / 3, kept within 32-bit integers
MinutesMicro(minutes) ==
    IF minutes.scale <= 4
    THEN RoundHalfEven(minutes.num * 5 * Pow10(4 - minutes.scale), 3)
    ELSE RoundHalfEven(minutes.num * 5, 3 * Pow10(minutes.scale - 4))

DecimalDegrees(degrees, minutes, negative) ==
    IF ~degrees.ok \/ ~minutes.ok THEN [ok |-> FALSE, micro |-> 0]
    ELSE [ok    |-> TRUE,
          micro |-> IF negative
                    THEN 0 - (degrees.val * 1000000 + MinutesMicro(minutes))
                    ELSE degrees.val * 1000000 + MinutesMicro(minutes)]

ConvertDegMin(str, degLen, negDir, direction) ==
    DecimalDegrees(ParseInt(Slice(str, 0, degLen)),
                   ParseFloat(SliceFrom(str, degLen)),
                   direction = negDir)

\* the latitude negated for the longitude's letter
convert_latitude_WestSign(lat_str, direction) ==
    ConvertDegMin(lat_str, 2, <<"W">>, direction)

convert_latitude(lat_str, direction) ==
    ConvertDegMin(lat_str, 2, <<"S">>, direction)

\* the longitude with two characters of degrees, as the latitude has
convert_longitude_TwoDigits(lon_str, direction) ==
    ConvertDegMin(lon_str, 2, <<"W">>, direction)

convert_longitude(lon_str, direction) ==
    ConvertDegMin(lon_str, 3, <<"W">>, direction)

\* ---------------------------------------------------------------------
\* hass.data[<name>_smart0183serial_data]: the field catalog built from
\* Smart0183serial.json, keyed by unique_id "<sentence type>_<field index>".
\* GLL and MWV follow the NMEA layout (the hemisphere / unit letter is the
\* field after the value); PSB is a sentence whose cross-references point
\* four fields on, so that a truncated sentence leaves them out of range.
\* GGA carries the GPS hints on its coordinate fields (2 and 4) and also on
\* the hemisphere fields after them (3 and 5).
\* ---------------------------------------------------------------------
Degree == <<"°">>

Catalog ==
    [k \in {"GLL_1", "GLL_3", "MWV_1", "MWV_3", "GGA_2", "GGA_3", "GGA_4", "GGA_5", "PSB_1", "PSB_2", "PSB_3"} |->
        CASE k = "GLL_1" ->
                 [full_description |-> "Latitude", group |-> "GPS",
                  sentence_description |-> "Geographic Position",
                  unit_of_measurement |-> <<"G", "P", "S", "L", "A", "T", "2">>]
          [] k = "GLL_3" ->
                 [full_description |-> "Longitude", group |-> "GPS",
                  sentence_description |-> "Geographic Position",
                  unit_of_measurement |-> <<"G", "P", "S", "L", "O", "N", "4">>]
          [] k = "MWV_1" ->
                 [full_description |-> "Wind Angle", group |-> "Wind",
                  sentence_description |-> "Wind Speed and Angle",
                  unit_of_measurement |-> Degree]
          [] k = "MWV_3" ->
                 [full_description |-> "Wind Speed", group |-> "Wind",
                  sentence_description |-> "Wind Speed and Angle",
                  unit_of_measurement |-> <<"#", "4">>]
          [] k = "GGA_2" ->
                 [full_description |-> "Latitude", group |-> "GPS",
                  sentence_description |-> "GPS Fix Data",
                  unit_of_measurement |-> <<"G", "P", "S", "L", "A", "T", "3">>]
          [] k = "GGA_3" ->
                 [full_description |-> "Latitude Hemisphere", group |-> "GPS",
                  sentence_description |-> "GPS Fix Data",
                  unit_of_measurement |-> <<"G", "P", "S", "L", "A", "T", "4">>]
          [] k = "GGA_4" ->
                 [full_description |-> "Longitude", group |-> "GPS",
                  sentence_description |-> "GPS Fix Data",
                  unit_of_measurement |-> <<"G", "P", "S", "L", "O", "N", "5">>]
          [] k = "GGA_5" ->
                 [full_description |-> "Longitude Hemisphere", group |-> "GPS",
                  sentence_description |-> "GPS Fix Data",
                  unit_of_measurement |-> <<"G", "P", "S", "L", "O", "N", "6">>]
          [] k = "PSB_1" ->
                 [full_description |-> "Fix Latitude", group |-> "Position",
                  sentence_description |-> "Position Fix",
                  unit_of_measurement |-> <<"G", "P", "S", "L", "A", "T", "5">>]
          [] k = "PSB_2" ->
                 [full_description |-> "Fix Error", group |-> "Position",
                  sentence_description |-> "Position Fix",
                  unit_of_measurement |-> <<"#", "5">>]
          [] k = "PSB_3" ->
                 [full_description |-> "Fix Status", group |-> "Position",
                  sentence_description |-> "Position Fix",
                  unit_of_measurement |-> None]]

\* ---------------------------------------------------------------------
\* SmartSensor
\* ---------------------------------------------------------------------
NoneState == [kind |-> "none"]

StrState(s) == [kind |-> "str", s |-> s]

FloatState(micro) == [kind |-> "float", micro |-> micro]

\* new_state is None or new_state == ""
IsNoneOrEmpty(v) == v = NoneState \/ v = StrState(<<>>)

LowerChar(c) ==
    IF \E i \in 1..26 : UpperChars[i] = c
    THEN LowerChars[CHOOSE i \in 1..26 : UpperChars[i] = c]
    ELSE c

\* name.lower().replace(" ", "_")
UniqueId(name) == Str(Replace([i \in 1..Len(name) |-> LowerChar(name[i])], " ", "_"))

\* SmartSensor.__init__ at clock reading t
SmartSensor(name, friendly_name, initial_state, group, unit_of_measurement, device_name, sentence_type, t) ==
    [unique_id           |-> UniqueId(name),
     name                |-> IF friendly_name # "" THEN friendly_name
                             ELSE UniqueId(name),
     state               |-> initial_state,
     group               |-> group,
     device_name         |-> device_name,
     sentence_type       |-> sentence_type,
     unit_of_measurement |-> unit_of_measurement,
     last_updated        |-> t,
     available           |-> ~IsNoneOrEmpty(initial_state)]

\* set_state without the availability rule: the flag keeps its old value
set_state_KeepsFlag(sensor, new_state, t) ==
    [sensor EXCEPT !.state = new_state,
                   !.last_updated = t]

\* SmartSensor.set_state at clock reading t
set_state(sensor, new_state, t) ==
    [sensor EXCEPT !.state = new_state,
                   !.available = ~IsNoneOrEmpty(new_state),
                   !.last_updated = t]

\* update_availability with an inclusive window
update_availability_Inclusive(sensor, t) ==
    [sensor EXCEPT !.available = (t - sensor.last_updated) <= StaleWindow]

\* SmartSensor.update_availability at clock reading t
update_availability(sensor, t) ==
    [sensor EXCEPT !.available = (t - sensor.last_updated) < StaleWindow]

\* ---------------------------------------------------------------------
\* hass.data of one integration instance while a line is processed:
\*   sensors  hass.data[<name>_created_sensors]
\*   gps      hass.data[<name>_gps]
\*   calls    the calls made on the host: add_entities([sensor]) and the
\*            state write scheduled by set_state, in order
\* ---------------------------------------------------------------------
\* the empty dict
Empty == [k \in {} |-> 0]

\* d[k] = v
Put(f, k, v) == [x \in DOMAIN f \cup {k} |-> IF x = k THEN v ELSE f[x]]

AddCall(key) == [op |-> "add_entities", key |-> key]

SetCall(key) == [op |-> "set_state", key |-> key]

Register(hd, key, sensor) ==
    [hd EXCEPT !.sensors = Put(hd.sensors, key, sensor),
               !.calls = Append(hd.calls, AddCall(key))]

Update(hd, key, new_state, t) ==
    [hd EXCEPT !.sensors = [hd.sensors EXCEPT ![key] = set_state(@, new_state, t)],
               !.calls = Append(hd.calls, SetCall(key))]

\* the membership test made on the GPS dict instead of the sensor dict
Created_InGps(hd, key) == key \in DOMAIN hd.gps

\* key in hass.data[created_sensors_key]
Created(hd, key) == key \in DOMAIN hd.sensors

\* The outcome of a piece of the field loop: raised = TRUE when an exception
\* leaves it (the handlers around the loop log it and the function returns)
Done(hd) == [raised |-> FALSE, hd |-> hd]

Raised(hd) == [raised |-> TRUE, hd |-> hd]

\* ---------------------------------------------------------------------
\* decimal_sensor
\* ---------------------------------------------------------------------
\* the conversion inside the try block; ok = FALSE when it returns early or
\* an exception is caught
ConvertGps(unit_of_measurement, field_data, compass_direction) ==
    IF Contains(unit_of_measurement, <<"G", "P", "S", "L", "A", "T">>)
    THEN convert_latitude(field_data, compass_direction)
    ELSE IF Contains(unit_of_measurement, <<"G", "P", "S", "L", "O", "N">>)
    THEN convert_longitude(field_data, compass_direction)
    ELSE [ok |-> FALSE, micro |-> 0]

\* the conversion without its except clause: the error leaves decimal_sensor
ConversionFailed_Raises(hd) == Raised(hd)

\* the early return and the except clause around the conversion
ConversionFailed(hd) == Done(hd)

\* decimal_sensor without its update branch
UpsertDecimal_CreateOnly(hd, decimal_sensor_name, key, decimal_desc, decimal_value, group, device_name, sentence_type, t) ==
    IF key \in DOMAIN hd.sensors
    THEN hd
    ELSE Register(hd, key,
             SmartSensor(decimal_sensor_name, decimal_desc,
                         FloatState(decimal_value), group, Degree, device_name,
                         sentence_type, t))

\* "Create or update the sensor"
UpsertDecimal(hd, decimal_sensor_name, key, decimal_desc, decimal_value, group, device_name, sentence_type, t) ==
    IF Created(hd, key)
    THEN Update(hd, key, FloatState(decimal_value), t)
    ELSE Register(hd, key,
             SmartSensor(decimal_sensor_name, decimal_desc,
                         FloatState(decimal_value), group, Degree, device_name,
                         sentence_type, t))

decimal_sensor(hd, sensor_name, full_desc, field_data, unit_of_measurement, fields, group, device_name, sentence_type, t) ==
    Let(ParseInt(LastN(unit_of_measurement, 1)),
        LAMBDA compass_field_idx :
            IF ~compass_field_idx.ok THEN Raised(hd)
            ELSE IF compass_field_idx.val >= Len(fields) THEN Done(hd)
            ELSE Let(ConvertGps(unit_of_measurement, field_data,
                                Strip(fields[compass_field_idx.val + 1])),
                     LAMBDA decimal_value :
                         IF ~decimal_value.ok THEN ConversionFailed(hd)
                         ELSE Done(UpsertDecimal(
                                  hd,
                                  sensor_name \o <<"_", "d", "e", "c", "i", "m", "a", "l">>,
                                  Str(sensor_name) \o "_decimal",
                                  full_desc \o " Decimal Coversion",
                                  decimal_value.micro, group, device_name,
                                  sentence_type, t))))

\* str(idx) inside an f-string, idx >= 0
RECURSIVE IntChars(_)
IntChars(n) ==
    IF n < 10 THEN <<DigitChars[n + 1]>>
    ELSE IntChars(n \div 10) \o <<DigitChars[(n % 10) + 1]>>

\* unit_of_measurement and unit_of_measurement.startswith(p)
HintStartsWith(unit_of_measurement, p) ==
    /\ unit_of_measurement # None
    /\ unit_of_measurement # <<>>
    /\ StartsWith(unit_of_measurement, p)

\* ---------------------------------------------------------------------
\* set_smart_sensors
\* ---------------------------------------------------------------------
\* the lookup with a default descriptor for a missing key
GetSensorInfo_Default(short_sensor_name) ==
    IF short_sensor_name \in DOMAIN Catalog
    THEN [found |-> TRUE, info |-> Catalog[short_sensor_name]]
    ELSE [found |-> TRUE,
          info |-> [full_description |-> "", group |-> "",
                    sentence_description |-> "", unit_of_measurement |-> None]]

\* hass.data[smart0183serial_data_key].get(short_sensor_name)
GetSensorInfo(short_sensor_name) ==
    IF short_sensor_name \in DOMAIN Catalog
    THEN [found |-> TRUE, info |-> Catalog[short_sensor_name]]
    ELSE [found |-> FALSE]

\* the hint matches the pattern "#x"
IsReference(hint) ==
    HintStartsWith(hint, <<"#">>) /\ IsDigit(SliceFrom(hint, 1))

\* "Create/update an additional sensor for GPS conversion fields"
GpsStep(hd, key, sensor_name, full_desc, field_data, fields, group, device_name, sentence_type, t) ==
    IF key \in DOMAIN hd.gps
    THEN decimal_sensor(hd, sensor_name, full_desc, field_data, hd.gps[key],
                        fields, group, device_name, sentence_type, t)
    ELSE Done(hd)

\* the sensor is created with the resolved unit_of_measurement
CreateSensor(hd, key, sensor_name, sensor_info, unit_of_measurement, device_name, field_data, fields, sentence_type, t) ==
    GpsStep(Register(IF HintStartsWith(unit_of_measurement, <<"G", "P", "S">>)
                     THEN [hd EXCEPT !.gps = Put(hd.gps, key, unit_of_measurement)]
                     ELSE hd,
                     key,
                     SmartSensor(sensor_name, sensor_info.full_description,
                                 StrState(field_data), sensor_info.group,
                                 IF HintStartsWith(unit_of_measurement, <<"G", "P", "S">>)
                                 THEN Degree ELSE unit_of_measurement,
                                 device_name, sentence_type, t)),
            key, sensor_name, sensor_info.full_description, field_data, fields,
            sensor_info.group, device_name, sentence_type, t)

\* the branch "sensor_name not in hass.data[created_sensors_key]"
CreateField(hd, key, sensor_name, found, fields, sentence_id, device_id, idx, t) ==
    IF ~found.found THEN Done(hd)
    ELSE IF /\ IsReference(found.info.unit_of_measurement)
            /\ ~(/\ 1 <= DigitsVal(SliceFrom(found.info.unit_of_measurement, 1))
                 /\ DigitsVal(SliceFrom(found.info.unit_of_measurement, 1)) < Len(fields))
    THEN Done(hd)
    ELSE CreateSensor(
             hd, key, sensor_name, found.info,
             IF IsReference(found.info.unit_of_measurement)
             THEN translate_unit(
                      fields[DigitsVal(SliceFrom(found.info.unit_of_measurement, 1)) + 1])
             ELSE found.info.unit_of_measurement,
             found.info.sentence_description \o " (" \o Str(device_id) \o ")",
             fields[idx + 1], fields, Str(SliceFrom(sentence_id, 2)), t)

\* the update branch reading the field before the one it belongs to
FieldNamed_FieldBefore(hd, key, sensor_name, fields, sentence_id, device_id, idx, t) ==
    IF ~Created(hd, key)
    THEN CreateField(hd, key, sensor_name,
                     GetSensorInfo(Str(SliceFrom(sentence_id, 2) \o <<"_">> \o IntChars(idx))),
                     fields, sentence_id, device_id, idx, t)
    ELSE GpsStep(Update(hd, key, StrState(fields[idx]), t),
                 key, sensor_name, "", fields[idx], fields, "", "",
                 Str(SliceFrom(sentence_id, 2)), t)

\* one iteration of the field loop for the sensor called sensor_name
FieldNamed(hd, key, sensor_name, fields, sentence_id, device_id, idx, t) ==
    IF ~Created(hd, key)
    THEN CreateField(hd, key, sensor_name,
                     GetSensorInfo(Str(SliceFrom(sentence_id, 2) \o <<"_">> \o IntChars(idx))),
                     fields, sentence_id, device_id, idx, t)
    ELSE GpsStep(Update(hd, key, StrState(fields[idx + 1]), t),
                 key, sensor_name, "", fields[idx + 1], fields, "", "",
                 Str(SliceFrom(sentence_id, 2)), t)

\* the sensor name built with a fixed talker instead of device_id
FieldStep_FixedTalker(hd, fields, sentence_id, device_id, idx, t) ==
    Let(<<"G", "P", "_">> \o SliceFrom(sentence_id, 2) \o <<"_">> \o IntChars(idx),
        LAMBDA sensor_name :
            FieldNamed(hd, Str(sensor_name), sensor_name, fields, sentence_id,
                       device_id, idx, t))

FieldStep(hd, fields, sentence_id, device_id, idx, t) ==
    Let(device_id \o <<"_">> \o SliceFrom(sentence_id, 2) \o <<"_">> \o IntChars(idx),
        LAMBDA sensor_name :
            FieldNamed(hd, Str(sensor_name), sensor_name, fields, sentence_id,
                       device_id, idx, t))

\* the field loop without the break at the last field
RECURSIVE FieldLoop_NoBreak(_, _, _, _, _, _)
FieldLoop_NoBreak(hd, fields, sentence_id, device_id, idx, t) ==
    IF idx > Len(fields) - 1 THEN hd
    ELSE Let(FieldStep(hd, fields, sentence_id, device_id, idx, t),
             LAMBDA r : IF r.raised THEN r.hd
                        ELSE FieldLoop_NoBreak(r.hd, fields, sentence_id,
                                               device_id, idx + 1, t))

\* for idx, field_data in enumerate(fields[1:], 1), with the break at the
\* last field
RECURSIVE FieldLoop(_, _, _, _, _, _)
FieldLoop(hd, fields, sentence_id, device_id, idx, t) ==
    IF idx > Len(fields) - 1 \/ idx = Len(fields) - 1 THEN hd
    ELSE Let(FieldStep(hd, fields, sentence_id, device_id, idx, t),
             LAMBDA r : IF r.raised THEN r.hd
                        ELSE FieldLoop(r.hd, fields, sentence_id, device_id,
                                       idx + 1, t))

\* the checksum made a field of its own
SplitChecksum(line) ==
    IF Contains(LastN(line, 3), <<"*">>)
    THEN DropLastN(line, 3) \o Replace(LastN(line, 3), "*", ",")
    ELSE line

\* fields = line.split(',') after the checksum was split off
split_fields(line) == Split(SplitChecksum(line), ",")

\* the body of set_smart_sensors once the line is split into fields
ProcessFields(hd, fields, t) ==
    IF Len(fields) < 1 \/ Len(fields[1]) < 6 THEN hd
    ELSE FieldLoop(hd, fields, Slice(fields[1], 1, 6),
                   Slice(Slice(fields[1], 1, 6), 0, 2), 1, t)

\* ---------------------------------------------------------------------
\* The lines the serial device sends, as readline() returns them
\* ---------------------------------------------------------------------
\* $GPGLL,4916.45,N,12311.12,W*71\r\n: a position fix from talker GP
GllFix ==
    <<"$", "G", "P", "G", "L", "L", ",", "4", "9", "1", "6", ".", "4", "5",
      ",", "N", ",", "1", "2", "3", "1", "1", ".", "1", "2", ",", "W", "*",
      "7", "1", "\r", "\n">>

\* $GPGLL,3351.30,S,15112.60,E*6B\r\n: a fix in the other hemispheres, same talker
GllSouth ==
    <<"$", "G", "P", "G", "L", "L", ",", "3", "3", "5", "1", ".", "3", "0",
      ",", "S", ",", "1", "5", "1", "1", "2", ".", "6", "0", ",", "E", "*",
      "6", "B", "\r", "\n">>

\* $GPGLL,,,,*50\r\n: no fix: the coordinate fields are empty
GllNoFix ==
    <<"$", "G", "P", "G", "L", "L", ",", ",", ",", ",", "*", "5", "0", "\r",
      "\n">>

\* $GPGLL,49AB.45,N,12311.12,W*71\r\n: a latitude that is not a number, followed by a good longitude
GllBad ==
    <<"$", "G", "P", "G", "L", "L", ",", "4", "9", "A", "B", ".", "4", "5",
      ",", "N", ",", "1", "2", "3", "1", "1", ".", "1", "2", ",", "W", "*",
      "7", "1", "\r", "\n">>

\* $IIGLL,4916.45,N,12311.12,W*71\r\n: the fix of GllFix sent by talker II
GllOther ==
    <<"$", "I", "I", "G", "L", "L", ",", "4", "9", "1", "6", ".", "4", "5",
      ",", "N", ",", "1", "2", "3", "1", "1", ".", "1", "2", ",", "W", "*",
      "7", "1", "\r", "\n">>

\* $IIMWV,045,R,12.5,N,A*2B\r\n: wind speed in knots
MwvKnots ==
    <<"$", "I", "I", "M", "W", "V", ",", "0", "4", "5", ",", "R", ",", "1",
      "2", ".", "5", ",", "N", ",", "A", "*", "2", "B", "\r", "\n">>

\* $IIMWV,045,R,6.4,M,A*2B\r\n: wind speed in metres per second
MwvMetres ==
    <<"$", "I", "I", "M", "W", "V", ",", "0", "4", "5", ",", "R", ",", "6",
      ".", "4", ",", "M", ",", "A", "*", "2", "B", "\r", "\n">>

\* $IIMWV,,R,,N,V*2B\r\n: no wind data: empty angle and speed
MwvCalm ==
    <<"$", "I", "I", "M", "W", "V", ",", ",", "R", ",", ",", "N", ",", "V",
      "*", "2", "B", "\r", "\n">>

\* $GPPSB,4916.45,1.5,A,7,S*5A\r\n: a complete PSB sentence
PsbFull ==
    <<"$", "G", "P", "P", "S", "B", ",", "4", "9", "1", "6", ".", "4", "5",
      ",", "1", ".", "5", ",", "A", ",", "7", ",", "S", "*", "5", "A", "\r",
      "\n">>

\* $GPPSB,4916.45,1.5,A*5A\r\n: a truncated PSB sentence: field 5 is missing
PsbShort ==
    <<"$", "G", "P", "P", "S", "B", ",", "4", "9", "1", "6", ".", "4", "5",
      ",", "1", ".", "5", ",", "A", "*", "5", "A", "\r", "\n">>

\* not a sentence\r\n: text that is no sentence
NotASentence ==
    <<"n", "o", "t", " ", "a", " ", "s", "e", "n", "t", "e", "n", "c", "e",
      "\r", "\n">>

\* $GP,1,2*00\r\n: a first token shorter than 6 characters
ShortId ==
    <<"$", "G", "P", ",", "1", ",", "2", "*", "0", "0", "\r", "\n">>

\* $GPZZZ,1,2*00\r\n: a sentence type the catalog does not describe
Unknown ==
    <<"$", "G", "P", "Z", "Z", "Z", ",", "1", ",", "2", "*", "0", "0", "\r",
      "\n">>

\* \r\n: an empty line
Blank ==
    <<"\r", "\n">>

\* !GPGLL,4916.45,N,12311.12,W*71\r\n: an encapsulated sentence: it starts with ! instead of $
BangGll ==
    <<"!", "G", "P", "G", "L", "L", ",", "4", "9", "1", "6", ".", "4", "5",
      ",", "N", ",", "1", "2", "3", "1", "1", ".", "1", "2", ",", "W", "*",
      "7", "1", "\r", "\n">>

\* $IIMWV,045,R,23.1,K,A*2B\r\n: wind speed in km/h
MwvKph ==
    <<"$", "I", "I", "M", "W", "V", ",", "0", "4", "5", ",", "R", ",", "2",
      "3", ".", "1", ",", "K", ",", "A", "*", "2", "B", "\r", "\n">>

\* $IIMWV,045,R,12.5,k,A*2B\r\n: the unit letter in lower case
MwvLower ==
    <<"$", "I", "I", "M", "W", "V", ",", "0", "4", "5", ",", "R", ",", "1",
      "2", ".", "5", ",", "k", ",", "A", "*", "2", "B", "\r", "\n">>

\* $IIMWV,045,R,21.0,f,A*2B\r\n: a unit letter outside the translation table, in lower case
MwvFeet ==
    <<"$", "I", "I", "M", "W", "V", ",", "0", "4", "5", ",", "R", ",", "2",
      "1", ".", "0", ",", "f", ",", "A", "*", "2", "B", "\r", "\n">>

\* $GPPSB,4916.45,1.5,A\r\n: a PSB sentence without checksum: the status is the last token
PsbBare ==
    <<"$", "G", "P", "P", "S", "B", ",", "4", "9", "1", "6", ".", "4", "5",
      ",", "1", ".", "5", ",", "A", "\r", "\n">>

\* $GPGGA,123519,4807.038,N,01131.000,E,1,08,0.9,545.4,M,46.9,M,,*47\r\n: a GGA fix
Gga ==
    <<"$", "G", "P", "G", "G", "A", ",", "1", "2", "3", "5", "1", "9", ",",
      "4", "8", "0", "7", ".", "0", "3", "8", ",", "N", ",", "0", "1", "1",
      "3", "1", ".", "0", "0", "0", ",", "E", ",", "1", ",", "0", "8", ",",
      "0", ".", "9", ",", "5", "4", "5", ".", "4", ",", "M", ",", "4", "6",
      ".", "9", ",", "M", ",", ",", "*", "4", "7", "\r", "\n">>

\* $GPGGA,123519,4807.038,S,01131.000,W,1,08,0.9,545.4,M,46.9,M,,*47\r\n: the same fix in the other hemispheres
GgaSouthWest ==
    <<"$", "G", "P", "G", "G", "A", ",", "1", "2", "3", "5", "1", "9", ",",
      "4", "8", "0", "7", ".", "0", "3", "8", ",", "S", ",", "0", "1", "1",
      "3", "1", ".", "0", "0", "0", ",", "W", ",", "1", ",", "0", "8", ",",
      "0", ".", "9", ",", "5", "4", "5", ".", "4", ",", "M", ",", "4", "6",
      ".", "9", ",", "M", ",", ",", "*", "4", "7", "\r", "\n">>

AllLines ==
    {GllFix, GllSouth, GllNoFix, GllBad, GllOther, MwvKnots, MwvMetres, MwvCalm,
     PsbFull, PsbShort, NotASentence, ShortId, Unknown, Blank, BangGll, MwvKph,
     MwvLower, MwvFeet, PsbBare, Gga, GgaSouthWest}

\* line.decode("utf-8").strip() of every line, computed once
Text == [raw \in AllLines |-> Strip(raw)]

\* the fields set_smart_sensors splits every line into, computed once
FieldsOf == [line \in {Text[raw] : raw \in AllLines} |-> split_fields(line)]

\* set_smart_sensors without the test for the leading $
set_smart_sensors_AnyStart(hd, line, t) ==
    IF line = <<>> THEN hd
    ELSE ProcessFields(hd, FieldsOf[line], t)

set_smart_sensors(hd, line, t) ==
    IF line = <<>> \/ ~StartsWith(line, <<"$">>) THEN hd
    ELSE ProcessFields(hd, FieldsOf[line], t)

\* bytes that are not UTF-8
Undecodable == <<"<bytes>">>

\* What the device may send in one session
Feeds ==
    { {GllFix, GllSouth, GllNoFix},
      {GllBad, GllFix},
      {GllFix, GllOther},
      {MwvKnots, MwvMetres, MwvCalm},
      {MwvKph, MwvLower, MwvFeet},
      {PsbFull, PsbShort},
      {PsbBare, PsbShort},
      {NotASentence, GllFix},
      {BangGll, GllFix},
      {Blank, GllFix},
      {Unknown, ShortId},
      {Gga, GgaSouthWest} }

\* The clock readings at which something happens
Instants == {t \in {0, 3, 6, 8, 60, 61, 240, 300, 303, 600} : t <= MaxTime}

\* ---------------------------------------------------------------------
\* State
\* ---------------------------------------------------------------------
VARIABLES
    now,             \* datetime.now()
    sensors,         \* hass.data[<name>_created_sensors]
    gps,             \* hass.data[<name>_gps]
    last_processed,  \* serial_read: last_processed
    reader,          \* serial_read: "connecting", "reading" or "sleeping";
                     \* "stopped" once the task is cancelled
    readerWake,      \* end of the sleep in _handle_error (0 when not asleep)
    sweepAt,         \* end of the sleep in update_sensor_availability
    feed,            \* the lines the device sends in this session
    last,            \* history: what the latest step did
    addCount,        \* history: add_entities calls per sensor key
    handedAt,        \* history: when a line with these first six characters
                     \* was last handed to set_smart_sensors
    inflight         \* set_smart_sensors: the call in progress and the field
                     \* its loop is at; Idle between calls

vars == <<now, sensors, gps, last_processed, reader, readerWake, sweepAt, feed,
          last, addCount, handedAt, inflight>>

\* no call of set_smart_sensors is in progress
Idle == [active |-> FALSE]

\* the call for the line raw, gated at clock reading at, is at field idx and
\* has made these calls on the host
Running(raw, idx, at, calls) ==
    [active |-> TRUE, raw |-> raw, idx |-> idx, at |-> at, calls |-> calls]

\* the field loop awaits between two fields
Yielded_InLoop == TRUE

\* The reader task is suspended at one of its awaits (open, readline, sleep):
\* only then does the event loop run another task or callback
Yielded == ~inflight.active

Step(op) == [op |-> op, raw |-> <<>>, processed |-> FALSE, calls |-> <<>>]

ReadStep(raw, processed, calls) ==
    [op |-> "read", raw |-> raw, processed |-> processed, calls |-> calls]

AddsOf(calls, key) == Cardinality({i \in 1..Len(calls) : calls[i] = AddCall(key)})

CountAdds(count, calls) ==
    [k \in DOMAIN count \cup {calls[i].key : i \in {j \in 1..Len(calls) : calls[j].op = "add_entities"}} |->
        (IF k \in DOMAIN count THEN count[k] ELSE 0) + AddsOf(calls, k)]

\* The first six characters of a line as the device sent it
Header(raw) == Slice(Text[raw], 0, 6)

Init ==
    /\ now = 0
    /\ sensors = Empty
    /\ gps = Empty
    /\ last_processed = Empty
    /\ reader = "connecting"
    /\ readerWake = 0
    /\ sweepAt = SweepPeriod
    /\ feed \in Feeds
    /\ last = Step("other")
    /\ addCount = Empty
    /\ handedAt = Empty
    /\ inflight = Idle

\* ---------------------------------------------------------------------
\* The clock: it moves to the next instant, and not past a due sweep.  A
\* call of set_smart_sensors has no await and takes far less than a second:
\* the clock does not move while one is in progress
\* ---------------------------------------------------------------------
Tick ==
    /\ Yielded
    /\ now < sweepAt
    /\ \E t \in Instants :
          /\ t > now
          /\ \A u \in Instants : u > now => t <= u
          /\ now' = t
    /\ last' = Step("other")
    /\ UNCHANGED <<sensors, gps, last_processed, reader, readerWake, sweepAt,
                   feed, addCount, handedAt, inflight>>

\* ---------------------------------------------------------------------
\* SerialSensor.serial_read
\* ---------------------------------------------------------------------
\* sentence_type = line[:6]
ThrottleKey(line) == Str(Slice(line, 0, 6))

\* the gate with a strict comparison
ShouldProcess_Strict(stamps, sentence_type, t) ==
    \/ sentence_type \notin DOMAIN stamps
    \/ t - stamps[sentence_type] > MinInterval

\* sentence_type not in last_processed
\*     or now - last_processed[sentence_type] >= min_interval
ShouldProcess(stamps, sentence_type, t) ==
    \/ sentence_type \notin DOMAIN stamps
    \/ t - stamps[sentence_type] >= MinInterval

OpenConnection ==
    /\ reader = "connecting"
    /\ reader' = "reading"
    /\ last' = Step("other")
    /\ UNCHANGED <<now, sensors, gps, last_processed, readerWake, sweepAt, feed,
                   addCount, handedAt, inflight>>

\* _handle_error
HandleError ==
    /\ reader' = "sleeping"
    /\ readerWake' = now + ErrorSleep

OpenFails ==
    /\ reader = "connecting"
    /\ HandleError
    /\ last' = Step("other")
    /\ UNCHANGED <<now, sensors, gps, last_processed, sweepAt, feed, addCount,
                   handedAt, inflight>>

ReadFails ==
    /\ Yielded
    /\ reader = "reading"
    /\ HandleError
    /\ last' = Step("other")
    /\ UNCHANGED <<now, sensors, gps, last_processed, sweepAt, feed, addCount,
                   handedAt, inflight>>

\* _handle_error without its sleep: the loop reopens at once
SleepDone_NoWait ==
    /\ reader = "sleeping"
    /\ reader' = "connecting"
    /\ readerWake' = 0
    /\ last' = Step("other")
    /\ UNCHANGED <<now, sensors, gps, last_processed, sweepAt, feed,
                   addCount, handedAt, inflight>>

SleepDone ==
    /\ reader = "sleeping"
    /\ now >= readerWake
    /\ reader' = "connecting"
    /\ readerWake' = 0
    /\ last' = Step("other")
    /\ UNCHANGED <<now, sensors, gps, last_processed, sweepAt, feed,
                   addCount, handedAt, inflight>>

\* stop_serial_read on EVENT_HOMEASSISTANT_STOP: the reader task is cancelled
\* at the await it is suspended in; the sweeper task is not touched
Stop ==
    /\ Yielded
    /\ reader # "stopped"
    /\ reader' = "stopped"
    /\ readerWake' = 0
    /\ last' = Step("other")
    /\ UNCHANGED <<now, sensors, gps, last_processed, sweepAt, feed, addCount,
                   handedAt, inflight>>

ReadUndecodable ==
    /\ Yielded
    /\ reader = "reading"
    /\ last' = ReadStep(Undecodable, FALSE, <<>>)
    /\ UNCHANGED <<now, sensors, gps, last_processed, reader, readerWake,
                   sweepAt, feed, addCount, handedAt, inflight>>

\* the line is handed to set_smart_sensors and the stamp is set
Process(raw, sentence_type, hd) ==
    /\ sensors' = hd.sensors
    /\ gps' = hd.gps
    /\ last_processed' = Put(last_processed, sentence_type, now)
    /\ last' = ReadStep(raw, TRUE, hd.calls)
    /\ addCount' = CountAdds(addCount, hd.calls)
    /\ handedAt' = Put(handedAt, Header(raw), now)

\* the line is skipped due to throttling
Skip(raw) ==
    /\ last' = ReadStep(raw, FALSE, <<>>)
    /\ UNCHANGED <<sensors, gps, last_processed, addCount, handedAt>>

\* what the loop does with the decoded and stripped line
Gate(raw, line, sentence_type) ==
    IF ShouldProcess(last_processed, sentence_type, now)
    THEN Process(raw, sentence_type,
                 set_smart_sensors([sensors |-> sensors, gps |-> gps, calls |-> <<>>],
                                   line, now))
    ELSE Skip(raw)

ReadLine(raw) ==
    /\ Yielded
    /\ reader = "reading"
    /\ Gate(raw, Text[raw], ThrottleKey(Text[raw]))
    /\ UNCHANGED <<now, reader, readerWake, sweepAt, feed, inflight>>

Read == \E raw \in feed : ReadLine(raw)

\* ---------------------------------------------------------------------
\* update_sensor_availability: one pass after the sleep
\* ---------------------------------------------------------------------
\* a pass that also forgets the sensors it finds stale
SweepAll_Pruning(created, t) ==
    [k \in {x \in DOMAIN created : t - created[x].last_updated < StaleWindow} |->
        update_availability(created[k], t)]

\* for sensor in hass.data[created_sensors_key].values()
SweepAll(created, t) == [k \in DOMAIN created |-> update_availability(created[k], t)]

\* a pass that also stamps every sensor it visits
Sweep_Restamping ==
    /\ Yielded
    /\ now >= sweepAt
    /\ sensors' = [k \in DOMAIN sensors |->
                      [update_availability(sensors[k], now) EXCEPT !.last_updated = now]]
    /\ sweepAt' = now + SweepPeriod
    /\ last' = Step("sweep")
    /\ UNCHANGED <<now, gps, last_processed, reader, readerWake, feed,
                   addCount, handedAt, inflight>>

Sweep ==
    /\ Yielded
    /\ now >= sweepAt
    /\ sensors' = SweepAll(sensors, now)
    /\ sweepAt' = now + SweepPeriod
    /\ last' = Step("sweep")
    /\ UNCHANGED <<now, gps, last_processed, reader, readerWake, feed,
                   addCount, handedAt, inflight>>

Next ==
    \/ Tick
    \/ OpenConnection
    \/ OpenFails
    \/ ReadFails
    \/ SleepDone
    \/ ReadUndecodable
    \/ Read
    \/ Stop
    \/ Sweep

Spec == Init /\ [][Next]_vars

\* ---------------------------------------------------------------------
\* The same program with set_smart_sensors taken one field at a time: the
\* call starts when the line passes the gate, runs its loop field by field
\* and ends with the stamp.  Another task runs only when the reader has
\* yielded.
\* ---------------------------------------------------------------------
\* the line passes the checks before the field loop
EntersLoop(line) ==
    /\ line # <<>>
    /\ StartsWith(line, <<"$">>)
    /\ ~(Len(FieldsOf[line]) < 1 \/ Len(FieldsOf[line][1]) < 6)

\* the loop has reached the break at the last field
LoopDone(call) == call.idx >= Len(FieldsOf[Text[call.raw]]) - 1

\* readline returned raw: the line is dropped, returned from at once, or its
\* field loop starts
BeginLine(raw) ==
    /\ Yielded
    /\ reader = "reading"
    /\ IF /\ ShouldProcess(last_processed, ThrottleKey(Text[raw]), now)
          /\ EntersLoop(Text[raw])
       THEN /\ inflight' = Running(raw, 1, now, <<>>)
            /\ last' = Step("other")
            /\ UNCHANGED <<sensors, gps, last_processed, addCount, handedAt>>
       ELSE /\ Gate(raw, Text[raw], ThrottleKey(Text[raw]))
            /\ inflight' = inflight
    /\ UNCHANGED <<now, reader, readerWake, sweepAt, feed>>

Begin == \E raw \in feed : BeginLine(raw)

\* the outcome r of one iteration of the loop is written to hass.data
FieldDone(r, fields) ==
    /\ sensors' = r.hd.sensors
    /\ gps' = r.hd.gps
    /\ addCount' = CountAdds(addCount, r.hd.calls)
    /\ inflight' = [inflight EXCEPT
                       !.idx = IF r.raised THEN Len(fields) - 1 ELSE @ + 1,
                       !.calls = @ \o r.hd.calls]

\* one iteration of the field loop
Field ==
    /\ inflight.active
    /\ ~LoopDone(inflight)
    /\ FieldDone(FieldStep([sensors |-> sensors, gps |-> gps, calls |-> <<>>],
                           FieldsOf[Text[inflight.raw]],
                           Slice(FieldsOf[Text[inflight.raw]][1], 1, 6),
                           Slice(FieldsOf[Text[inflight.raw]][1], 1, 3),
                           inflight.idx, now),
                 FieldsOf[Text[inflight.raw]])
    /\ last' = Step("other")
    /\ UNCHANGED <<now, last_processed, reader, readerWake, sweepAt, feed,
                   handedAt>>

\* set_smart_sensors returns and the line's stamp is set
End ==
    /\ inflight.active
    /\ LoopDone(inflight)
    /\ last_processed' = Put(last_processed, ThrottleKey(Text[inflight.raw]),
                             inflight.at)
    /\ handedAt' = Put(handedAt, Header(inflight.raw), inflight.at)
    /\ last' = ReadStep(inflight.raw, TRUE, inflight.calls)
    /\ inflight' = Idle
    /\ UNCHANGED <<now, sensors, gps, reader, readerWake, sweepAt, feed,
                   addCount>>

NextByField ==
    \/ Tick
    \/ OpenConnection
    \/ OpenFails
    \/ ReadFails
    \/ SleepDone
    \/ ReadUndecodable
    \/ Begin
    \/ Field
    \/ End
    \/ Stop
    \/ Sweep

SpecByField == Init /\ [][NextByField]_vars

\* =====================================================================
\* Properties
\* =====================================================================
\* The latest step handed a line to set_smart_sensors
Processed == last.op = "read" /\ last.processed

\* The fields of the line the latest step read
LastFields == FieldsOf[Text[last.raw]]

\* The latest step processed a sentence: a line that passes the shape checks
IsSentence(raw) ==
    /\ raw \in AllLines
    /\ StartsWith(Text[raw], <<"$">>)
    /\ Len(FieldsOf[Text[raw]][1]) >= 6

ProcessedSentence == Processed /\ IsSentence(last.raw)

\* The step read a line and processed it as a sentence
ProcessesSentence(step) ==
    step.op = "read" /\ step.processed /\ IsSentence(step.raw)

\* The talkers of the lines above
Talkers == {"GP", "II"}

\* The indices of the fields of a sentence that are candidates for an upsert
FieldIndices(fields) == 1..(Len(fields) - 2)

\* The measurement key of field idx: talker, sentence type, field index
KeyOf(fields, idx) ==
    Str(Slice(fields[1], 1, 3)) \o "_" \o Str(Slice(fields[1], 3, 6)) \o "_" \o ToString(idx)

\* The catalog key of field idx: sentence type, field index
ShortOf(fields, idx) == Str(Slice(fields[1], 3, 6)) \o "_" \o ToString(idx)

DecimalOf(key) == key \o "_decimal"

\* The keys the host was called for in the latest step
CalledKeys(step) == {step.calls[i].key : i \in 1..Len(step.calls)}

\* The catalog describes field idx and its #N hint, if it has one, points at
\* a field of the sentence
Described(fields, idx, lowest) ==
    /\ ShortOf(fields, idx) \in DOMAIN Catalog
    /\ LET hint == Catalog[ShortOf(fields, idx)].unit_of_measurement
       IN  IsReference(hint) =>
               /\ lowest <= DigitsVal(SliceFrom(hint, 1))
               /\ DigitsVal(SliceFrom(hint, 1)) < Len(fields)

\* The conversion of the coordinate text under the GPS hint, with the
\* hemisphere read from the sentence; ok = FALSE when it fails
Conversion(hint, text, fields) ==
    LET h == DigitVal(hint[Len(hint)])
    IN  IF h >= Len(fields) THEN [ok |-> FALSE, micro |-> 0]
        ELSE ConvertGps(hint, text, Strip(fields[h + 1]))

\* ---------------------------------------------------------------------
\* C1: every key is announced to add_entities exactly once, at its first
\* upsert; every later upsert of the key is a set_state on the registered
\* sensor and announces nothing.
\* ---------------------------------------------------------------------
C1_AnnouncedOnce ==
    /\ [](/\ DOMAIN addCount = DOMAIN sensors
          /\ \A k \in DOMAIN sensors : addCount[k] = 1)
    /\ [][/\ \A i \in 1..Len(last'.calls) :
                /\ last'.calls[i].op = "add_entities"
                       <=> last'.calls[i].key \notin DOMAIN sensors
                /\ last'.calls[i].op = "set_state"
                       <=> last'.calls[i].key \in DOMAIN sensors
                /\ \A j \in 1..Len(last'.calls) :
                       last'.calls[j].key = last'.calls[i].key => j = i
          /\ \A k \in DOMAIN sensors' :
                (k \notin DOMAIN sensors
                    \/ sensors'[k].last_updated # sensors[k].last_updated)
                    => k \in CalledKeys(last')]_vars

C1_Witness ==
    /\ Processed
    /\ \E i \in 1..Len(last.calls) :
          /\ last.calls[i] = SetCall("GP_GLL_1_decimal")
          /\ addCount["GP_GLL_1_decimal"] = 1

\* ---------------------------------------------------------------------
\* C2: a line is handed to the decoder exactly when no line with its
\* throttle key was processed before or the last one processed is at least
\* 5 seconds back; a dropped line leaves the stamps alone.
\* ---------------------------------------------------------------------
C2_Throttle ==
    [][(last'.op = "read" /\ last'.raw \in AllLines) =>
          /\ last'.processed <=>
                \/ Header(last'.raw) \notin DOMAIN handedAt
                \/ now - handedAt[Header(last'.raw)] >= 5
          /\ ~last'.processed => last_processed' = last_processed]_vars

C2_Witness ==
    /\ Processed
    /\ now = 6
    /\ \E k \in DOMAIN sensors : sensors[k].last_updated = 0
    /\ \E k \in DOMAIN sensors : sensors[k].last_updated = 6

\* ---------------------------------------------------------------------
\* C3: a line is dropped when a line of the same sentence type (characters
\* 4 to 6 of the line) was processed less than 5 seconds before, whichever
\* talker sent it.
\* ---------------------------------------------------------------------
C3_KeyedBySentenceType ==
    [][(last'.op = "read" /\ last'.raw \in AllLines /\ last'.processed) =>
          \A h \in DOMAIN handedAt :
              Slice(h, 3, 6) = Slice(Header(last'.raw), 3, 6)
                  => now - handedAt[h] >= 5]_vars

\* ---------------------------------------------------------------------
\* C4: right after an upsert the measurement holds the raw value, the time
\* of the upsert, and is unavailable exactly when the value is empty.
\* ---------------------------------------------------------------------
C4_Upsert ==
    Processed =>
        /\ \A k \in CalledKeys(last) :
              /\ sensors[k].last_updated = now
              /\ sensors[k].available <=> ~IsNoneOrEmpty(sensors[k].state)
        /\ ProcessedSentence =>
              \A idx \in FieldIndices(LastFields) :
                  KeyOf(LastFields, idx) \in CalledKeys(last) =>
                      sensors[KeyOf(LastFields, idx)].state
                          = StrState(LastFields[idx + 1])

C4_Witness ==
    /\ Processed
    /\ \E i \in 1..Len(last.calls) :
          /\ last.calls[i].op = "set_state"
          /\ sensors[last.calls[i].key].state = StrState(<<>>)
          /\ ~sensors[last.calls[i].key].available

\* ---------------------------------------------------------------------
\* C5: right after a sweep every measurement is available exactly when it
\* was updated less than 4 minutes ago.
\* ---------------------------------------------------------------------
C5_Sweep ==
    last.op = "sweep" =>
        \A k \in DOMAIN sensors :
            sensors[k].available <=> (now - sensors[k].last_updated < 240)

C5_Witness ==
    /\ last.op = "sweep"
    /\ \E k \in DOMAIN sensors :
          now - sensors[k].last_updated = 300 /\ ~sensors[k].available
    /\ \E k \in DOMAIN sensors :
          now - sensors[k].last_updated = 60 /\ sensors[k].available

\* ---------------------------------------------------------------------
\* C6: a measurement without upserts is unavailable no later than 9 minutes
\* after its last upsert, and once stale and unavailable it stays
\* unavailable until its next upsert.
\* ---------------------------------------------------------------------
C6_GoesStale ==
    /\ [](\A k \in DOMAIN sensors :
              now - sensors[k].last_updated >= 540 => ~sensors[k].available)
    /\ [][\A k \in DOMAIN sensors :
              (/\ ~sensors[k].available
               /\ now - sensors[k].last_updated >= 240
               /\ sensors'[k].last_updated = sensors[k].last_updated)
                  => ~sensors'[k].available]_vars

C6_Witness ==
    /\ last.op = "sweep"
    /\ \E k \in DOMAIN sensors :
          /\ now - sensors[k].last_updated >= 540
          /\ ~sensors[k].available
    /\ \E k \in DOMAIN sensors : now - sensors[k].last_updated < 540

\* ---------------------------------------------------------------------
\* C7: no step removes a registered measurement or puts another one in its
\* place.
\* ---------------------------------------------------------------------
C7_Monotone ==
    [][\A k \in DOMAIN sensors :
          /\ k \in DOMAIN sensors'
          /\ sensors'[k].unique_id = sensors[k].unique_id
          /\ sensors'[k].name = sensors[k].name
          /\ sensors'[k].group = sensors[k].group
          /\ sensors'[k].device_name = sensors[k].device_name
          /\ sensors'[k].sentence_type = sensors[k].sentence_type
          /\ sensors'[k].unit_of_measurement = sensors[k].unit_of_measurement
          /\ addCount'[k] = addCount[k]]_vars

C7_Witness ==
    /\ reader = "sleeping"
    /\ sweepAt > SweepPeriod
    /\ \E k \in DOMAIN sensors : ~sensors[k].available
    /\ NotASentence \in feed

\* ---------------------------------------------------------------------
\* C8: a field creates a measurement only when the catalog describes it and
\* its #N hint points into the sentence; a field that fails is skipped, the
\* fields after it are still processed, and every key of the registry is a
\* catalog key under a talker (or the decimal sensor of one).
\* ---------------------------------------------------------------------
C8_NoPlaceholder ==
    /\ [](\A k \in DOMAIN sensors :
              \E dev \in Talkers, short \in DOMAIN Catalog :
                  k \in {dev \o "_" \o short, DecimalOf(dev \o "_" \o short)})
    /\ [][ProcessesSentence(last') =>
              \A idx \in FieldIndices(FieldsOf[Text[last'.raw]]) :
                  /\ (/\ KeyOf(FieldsOf[Text[last'.raw]], idx) \notin DOMAIN sensors
                      /\ KeyOf(FieldsOf[Text[last'.raw]], idx) \in DOMAIN sensors')
                         => Described(FieldsOf[Text[last'.raw]], idx, 0)
                  /\ (\/ KeyOf(FieldsOf[Text[last'.raw]], idx) \in DOMAIN sensors
                      \/ Described(FieldsOf[Text[last'.raw]], idx, 1))
                         => /\ KeyOf(FieldsOf[Text[last'.raw]], idx) \in DOMAIN sensors'
                            /\ sensors'[KeyOf(FieldsOf[Text[last'.raw]], idx)].last_updated
                                   = now']_vars

C8_Witness ==
    /\ Processed
    /\ last.raw = PsbShort
    /\ "GP_PSB_1" \in DOMAIN sensors
    /\ "GP_PSB_2" \notin DOMAIN sensors
    /\ "GP_PSB_3" \in DOMAIN sensors
    /\ sensors["GP_PSB_3"].last_updated = now

\* ---------------------------------------------------------------------
\* C9 as stated: every processed sentence that upserts a GPS measurement K
\* whose decimal sensor exists upserts the decimal sensor too, so both carry
\* the same time of update.
\* ---------------------------------------------------------------------
C9_Lockstep ==
    Processed =>
        \A K \in DOMAIN gps :
            (K \in CalledKeys(last) /\ DecimalOf(K) \in DOMAIN sensors) =>
                /\ DecimalOf(K) \in CalledKeys(last)
                /\ sensors[DecimalOf(K)].last_updated = sensors[K].last_updated

\* ---------------------------------------------------------------------
\* C9 amended: every processed sentence that upserts a GPS measurement K and
\* whose coordinate converts upserts the decimal sensor too: both carry the
\* same time of update and the decimal sensor holds the conversion of the
\* value K holds.
\* ---------------------------------------------------------------------
C9_LockstepWhenConverted ==
    ProcessedSentence =>
        \A idx \in FieldIndices(LastFields) :
            (/\ KeyOf(LastFields, idx) \in DOMAIN gps
             /\ KeyOf(LastFields, idx) \in CalledKeys(last)
             /\ sensors[KeyOf(LastFields, idx)].state.kind = "str"
             /\ Conversion(gps[KeyOf(LastFields, idx)],
                           sensors[KeyOf(LastFields, idx)].state.s,
                           LastFields).ok)
                => /\ DecimalOf(KeyOf(LastFields, idx)) \in CalledKeys(last)
                   /\ sensors[DecimalOf(KeyOf(LastFields, idx))].last_updated
                          = sensors[KeyOf(LastFields, idx)].last_updated
                   /\ sensors[DecimalOf(KeyOf(LastFields, idx))].state
                          = FloatState(Conversion(gps[KeyOf(LastFields, idx)],
                                           sensors[KeyOf(LastFields, idx)].state.s,
                                           LastFields).micro)

C9_Witness ==
    /\ Processed
    /\ last.raw = GllSouth
    /\ \E i \in 1..Len(last.calls) : last.calls[i] = SetCall("GP_GLL_1_decimal")
    /\ sensors["GP_GLL_1_decimal"].state.micro < 0
    /\ sensors["GP_GLL_1_decimal"].last_updated = now
    /\ now > 0

\* ---------------------------------------------------------------------
\* C10: when the coordinate of a GPS field does not convert (bad text, or a
\* hemisphere index outside the sentence), the decimal sensor is neither
\* created nor changed by that sentence, the field's own measurement holds
\* the raw text, and the fields after it are still processed.
\* ---------------------------------------------------------------------
C10_ConversionFailure ==
    [][ProcessesSentence(last') =>
          \A idx \in FieldIndices(FieldsOf[Text[last'.raw]]) :
              (/\ KeyOf(FieldsOf[Text[last'.raw]], idx) \in DOMAIN gps'
               /\ KeyOf(FieldsOf[Text[last'.raw]], idx) \in CalledKeys(last')
               /\ ~Conversion(gps'[KeyOf(FieldsOf[Text[last'.raw]], idx)],
                              FieldsOf[Text[last'.raw]][idx + 1],
                              FieldsOf[Text[last'.raw]]).ok)
                 => /\ DecimalOf(KeyOf(FieldsOf[Text[last'.raw]], idx))
                           \notin CalledKeys(last')
                    /\ IF DecimalOf(KeyOf(FieldsOf[Text[last'.raw]], idx))
                              \in DOMAIN sensors
                       THEN /\ DecimalOf(KeyOf(FieldsOf[Text[last'.raw]], idx))
                                   \in DOMAIN sensors'
                            /\ sensors'[DecimalOf(KeyOf(FieldsOf[Text[last'.raw]], idx))]
                                   = sensors[DecimalOf(KeyOf(FieldsOf[Text[last'.raw]], idx))]
                       ELSE DecimalOf(KeyOf(FieldsOf[Text[last'.raw]], idx))
                                \notin DOMAIN sensors'
                    /\ sensors'[KeyOf(FieldsOf[Text[last'.raw]], idx)].state
                           = StrState(FieldsOf[Text[last'.raw]][idx + 1])
                    /\ sensors'[KeyOf(FieldsOf[Text[last'.raw]], idx)].last_updated
                           = now'
                    /\ \A j \in FieldIndices(FieldsOf[Text[last'.raw]]) :
                           (/\ j > idx
                            /\ \/ KeyOf(FieldsOf[Text[last'.raw]], j) \in DOMAIN sensors
                               \/ Described(FieldsOf[Text[last'.raw]], j, 1))
                              => KeyOf(FieldsOf[Text[last'.raw]], j)
                                     \in CalledKeys(last')]_vars

C10_Witness ==
    /\ Processed
    /\ last.raw \in {GllNoFix, GllBad}
    /\ "GP_GLL_1_decimal" \in DOMAIN sensors
    /\ sensors["GP_GLL_1_decimal"].last_updated < now
    /\ sensors["GP_GLL_1"].last_updated = now
    /\ sensors["GP_GLL_3"].last_updated = now

\* ---------------------------------------------------------------------
\* C11: a line that is empty, does not start with $, or whose first token
\* is shorter than 6 characters changes no measurement and no entry of the
\* GPS table, and no creation or update is announced.
\* ---------------------------------------------------------------------
\* The text before the first comma
RECURSIVE FirstTokenLen(_, _)
FirstTokenLen(line, i) ==
    IF i > Len(line) \/ line[i] = "," THEN i - 1
    ELSE FirstTokenLen(line, i + 1)

NotDecodable(line) ==
    \/ line = <<>>
    \/ line[1] # "$"
    \/ FirstTokenLen(line, 1) < 6

C11_MalformedIgnored ==
    [][(/\ last'.op = "read"
        /\ last'.raw \in AllLines
        /\ NotDecodable(Text[last'.raw]))
          => /\ sensors' = sensors
             /\ gps' = gps
             /\ addCount' = addCount
             /\ last'.calls = <<>>]_vars

C11_Witness ==
    /\ Processed
    /\ last.raw \in {NotASentence, BangGll, Blank}
    /\ sensors # Empty
    /\ \E k \in DOMAIN sensors : sensors[k].last_updated < now

\* ---------------------------------------------------------------------
\* C12: processing the line just processed once more keeps the key set,
\* creates and announces nothing, and leaves every measurement it touches
\* with the same value and unit: only the time of update moves on.
\* ---------------------------------------------------------------------
\* The registry as it is, handed to set_smart_sensors
HassData == [sensors |-> sensors, gps |-> gps, calls |-> <<>>]

\* again is the outcome of processing the latest line once more at time t
SameShape(again, t) ==
    /\ DOMAIN again.sensors = DOMAIN sensors
    /\ again.gps = gps
    /\ \A i \in 1..Len(again.calls) : again.calls[i].op = "set_state"
    /\ CalledKeys(again) = CalledKeys(last)
    /\ \A k \in DOMAIN sensors :
          again.sensors[k] = IF k \in CalledKeys(again)
                             THEN [sensors[k] EXCEPT !.last_updated = t]
                             ELSE sensors[k]

C12_Idempotent ==
    ProcessedSentence =>
        SameShape(set_smart_sensors(HassData, Text[last.raw], now + 5), now + 5)

C12_Witness ==
    /\ ProcessedSentence
    /\ last.raw = GllSouth
    /\ CalledKeys(last) = {"GP_GLL_1", "GP_GLL_1_decimal", "GP_GLL_3", "GP_GLL_3_decimal"}
    /\ sensors["GP_GLL_1_decimal"].state = FloatState(-33855000)

\* ---------------------------------------------------------------------
\* C13: after a sentence that carries a field whose unit hint is #N, the
\* unit of the field's measurement is the translation of field N of that
\* sentence.
\* ---------------------------------------------------------------------
\* field idx of the sentence has a #N hint that points into the sentence
ReferenceOf(fields, idx) ==
    DigitsVal(SliceFrom(Catalog[ShortOf(fields, idx)].unit_of_measurement, 1))

HasReference(fields, idx) ==
    /\ ShortOf(fields, idx) \in DOMAIN Catalog
    /\ IsReference(Catalog[ShortOf(fields, idx)].unit_of_measurement)
    /\ 1 <= ReferenceOf(fields, idx)
    /\ ReferenceOf(fields, idx) < Len(fields)

C13_UnitOfCurrentSentence ==
    ProcessedSentence =>
        \A idx \in FieldIndices(LastFields) :
            (/\ HasReference(LastFields, idx)
             /\ KeyOf(LastFields, idx) \in CalledKeys(last))
                => sensors[KeyOf(LastFields, idx)].unit_of_measurement
                       = translate_unit(LastFields[ReferenceOf(LastFields, idx) + 1])

\* ---------------------------------------------------------------------
\* C14: the unit letters N, K and M are translated to kn, kn and m/s in
\* either letter case, and every other unit text is returned as it is.
\* ---------------------------------------------------------------------
\* The translation as the table states it
TableUnit(u) ==
    IF u \in {<<"N">>, <<"n">>, <<"K">>, <<"k">>} THEN <<"k", "n">>
    ELSE IF u \in {<<"M">>, <<"m">>} THEN <<"m", "/", "s">>
    ELSE u

\* call i of the step created the measurement of a field with a #N hint
CreatedWithReference(step, fields, idx) ==
    /\ HasReference(fields, idx)
    /\ \E i \in 1..Len(step.calls) : step.calls[i] = AddCall(KeyOf(fields, idx))

C14_TranslateUnit ==
    ProcessedSentence =>
        \A idx \in FieldIndices(LastFields) :
            CreatedWithReference(last, LastFields, idx)
                => sensors[KeyOf(LastFields, idx)].unit_of_measurement
                       = TableUnit(LastFields[ReferenceOf(LastFields, idx) + 1])

\* ---------------------------------------------------------------------
\* C14 amended: the unit letters N, K and M are translated to kn, kn and m/s
\* in either letter case, None stays None, and every other unit text is
\* returned in upper case.
\* ---------------------------------------------------------------------
C14_TranslateUpper ==
    /\ translate_unit(None) = None
    /\ ProcessedSentence =>
          \A idx \in FieldIndices(LastFields) :
              CreatedWithReference(last, LastFields, idx)
                  => sensors[KeyOf(LastFields, idx)].unit_of_measurement
                         = TableUnit(Upper(LastFields[ReferenceOf(LastFields, idx) + 1]))

C14_Witness ==
    /\ ProcessedSentence
    /\ last.raw = MwvFeet
    /\ CreatedWithReference(last, LastFields, 3)
    /\ sensors["II_MWV_3"].unit_of_measurement = <<"F">>

\* ---------------------------------------------------------------------
\* C15: a sentence touches only measurements of its own talker, while the
\* description of a field is the same for every talker: measurements of the
\* same field from two talkers are distinct and carry the same catalog
\* description and group.
\* ---------------------------------------------------------------------
\* The keys a talker's sentences can produce
KeysOfTalker(dev) ==
    {dev \o "_" \o short : short \in DOMAIN Catalog}
        \cup {DecimalOf(dev \o "_" \o short) : short \in DOMAIN Catalog}

TalkerOf(raw) == Str(Slice(FieldsOf[Text[raw]][1], 1, 3))

C15_TalkerFrame ==
    /\ [][ProcessesSentence(last') =>
              /\ CalledKeys(last') \subseteq KeysOfTalker(TalkerOf(last'.raw))
              /\ \A k \in DOMAIN sensors' :
                    k \notin KeysOfTalker(TalkerOf(last'.raw))
                        => k \in DOMAIN sensors /\ sensors'[k] = sensors[k]]_vars
    /\ [](\A short \in DOMAIN Catalog :
              \A dev \in Talkers :
                  (dev \o "_" \o short) \in DOMAIN sensors =>
                      /\ sensors[dev \o "_" \o short].name
                             = Catalog[short].full_description
                      /\ sensors[dev \o "_" \o short].group = Catalog[short].group
                      /\ sensors[dev \o "_" \o short].device_name
                             = Catalog[short].sentence_description
                                   \o " (" \o dev \o ")")

C15_Witness ==
    /\ ProcessedSentence
    /\ last.raw = GllOther
    /\ {"GP_GLL_1", "II_GLL_1", "GP_GLL_1_decimal", "II_GLL_1_decimal"}
           \subseteq DOMAIN sensors
    /\ sensors["GP_GLL_1"].last_updated < now
    /\ sensors["II_GLL_1"].last_updated = now
    /\ sensors["GP_GLL_1"].name = sensors["II_GLL_1"].name
    /\ sensors["GP_GLL_1"].unique_id # sensors["II_GLL_1"].unique_id

\* ---------------------------------------------------------------------
\* C16: a * in the last three characters of a line counts as a comma, and
\* of the n tokens the line then has only the fields 1..n-2 are upserted:
\* the last token never creates or updates a measurement.
\* ---------------------------------------------------------------------
\* The number of x among the characters a+1..Len(line) of the line
CountFrom(line, x, a) == Cardinality({i \in (a + 1)..Len(line) : line[i] = x})

\* The tokens of the line once the checksum is a token of its own
TokenCount(line) ==
    1 + CountFrom(line, ",", 0) + CountFrom(line, "*", Max(Len(line) - 3, 0))

\* The key of field idx of the line, read off the line itself
KeyAt(line, idx) ==
    Str(Slice(line, 1, 3)) \o "_" \o Str(Slice(line, 3, 6)) \o "_" \o ToString(idx)

C16_LastTokenExcluded ==
    /\ [](\A raw \in feed :
              Text[raw] # <<>> => Len(FieldsOf[Text[raw]]) = TokenCount(Text[raw]))
    /\ [][ProcessesSentence(last') =>
              CalledKeys(last') \subseteq
                  UNION {{KeyAt(Text[last'.raw], idx),
                          DecimalOf(KeyAt(Text[last'.raw], idx))} :
                             idx \in 1..(TokenCount(Text[last'.raw]) - 2)}]_vars

C16_Witness ==
    /\ ProcessedSentence
    /\ last.raw = PsbBare
    /\ TokenCount(Text[last.raw]) = 4
    /\ "PSB_3" \in DOMAIN Catalog
    /\ DOMAIN sensors = {"GP_PSB_1"}

\* ---------------------------------------------------------------------
\* C17 as stated: latitude 4916.45 converts to 49.274250 for hemisphere N
\* and to -49.274250 for hemisphere S.
\* ---------------------------------------------------------------------
\* The step upserted the decimal sensor of the key
Converted(step, key) == DecimalOf(key) \in CalledKeys(step)

C17_LatitudeExample ==
    /\ (ProcessedSentence /\ last.raw = GllFix /\ Converted(last, "GP_GLL_1"))
          => sensors["GP_GLL_1_decimal"].state = FloatState(49274250)
    /\ (ProcessedSentence /\ last.raw = PsbFull /\ Converted(last, "GP_PSB_1"))
          => sensors["GP_PSB_1_decimal"].state = FloatState(-49274250)

\* ---------------------------------------------------------------------
\* C17 amended: the latitude is degrees (first 2 characters) + minutes / 60,
\* negated for hemisphere S and rounded to 6 decimal places; 4916.45
\* converts to 49.274167 for N and to -49.274167 for S.
\* ---------------------------------------------------------------------
Abs(n) == IF n < 0 THEN 0 - n ELSE n

\* v, in 10^-6 degree, is within half a unit of dd + mm.mmm / 60: with f the
\* part of |v| beyond the degrees and minutes = num / 10^scale,
\* |f / 10^6 - num / (60 * 10^scale)| <= 1 / (2 * 10^6)
RoundedLatitude(text, v) ==
    /\ ParseFloat(SliceFrom(text, 2)).scale <= 5
    /\ Abs(6 * (Abs(v) - DigitsVal(Slice(text, 0, 2)) * 1000000)
             - ParseFloat(SliceFrom(text, 2)).num
                   * Pow10(5 - ParseFloat(SliceFrom(text, 2)).scale)) <= 3

IsLatitudeHint(hint) == Contains(hint, <<"G", "P", "S", "L", "A", "T">>)

\* The hemisphere letter the hint of the key points at
HemisphereOf(fields, key) == Strip(fields[DigitVal(gps[key][Len(gps[key])]) + 1])

C17_Latitude ==
    /\ ProcessedSentence =>
          \A idx \in FieldIndices(LastFields) :
              (/\ KeyOf(LastFields, idx) \in DOMAIN gps
               /\ IsLatitudeHint(gps[KeyOf(LastFields, idx)])
               /\ Converted(last, KeyOf(LastFields, idx)))
                 => /\ sensors[DecimalOf(KeyOf(LastFields, idx))].state.kind = "float"
                    /\ RoundedLatitude(LastFields[idx + 1],
                           sensors[DecimalOf(KeyOf(LastFields, idx))].state.micro)
                    /\ sensors[DecimalOf(KeyOf(LastFields, idx))].state.micro < 0
                           <=> HemisphereOf(LastFields, KeyOf(LastFields, idx)) = <<"S">>
    /\ (ProcessedSentence /\ last.raw = GllFix /\ Converted(last, "GP_GLL_1"))
          => sensors["GP_GLL_1_decimal"].state = FloatState(49274167)
    /\ (ProcessedSentence /\ last.raw = PsbFull /\ Converted(last, "GP_PSB_1"))
          => sensors["GP_PSB_1_decimal"].state = FloatState(-49274167)

C17_Witness ==
    /\ ProcessedSentence
    /\ last.raw = PsbFull
    /\ Converted(last, "GP_PSB_1")
    /\ HemisphereOf(LastFields, "GP_PSB_1") = <<"S">>
    /\ sensors["GP_PSB_1_decimal"].state = FloatState(-49274167)

\* ---------------------------------------------------------------------
\* C18 as stated: the GGA line, processed on an empty registry under a
\* catalog that marks GGA_3 as GPS latitude and GGA_5 as GPS longitude,
\* leaves primary and decimal measurements for these two fields, the
\* decimal ones holding the signed decimal degrees of the fix.
\* ---------------------------------------------------------------------
\* The latest step processed the line on an empty registry
ProcessedFromEmpty(raw) ==
    /\ ProcessedSentence
    /\ last.raw = raw
    /\ \A k \in DOMAIN sensors :
          \E i \in 1..Len(last.calls) : last.calls[i] = AddCall(k)

C18_GgaFields3And5 ==
    ProcessedFromEmpty(Gga) =>
        /\ IsLatitudeHint(Catalog["GGA_3"].unit_of_measurement)
        /\ Contains(Catalog["GGA_5"].unit_of_measurement, <<"G", "P", "S", "L", "O", "N">>)
        /\ {"GP_GGA_3", "GP_GGA_5", "GP_GGA_3_decimal", "GP_GGA_5_decimal"}
               \subseteq DOMAIN sensors
        /\ sensors["GP_GGA_3_decimal"].state = FloatState(48117300)
        /\ sensors["GP_GGA_5_decimal"].state = FloatState(11516667)

\* ---------------------------------------------------------------------
\* C18 amended: the coordinates of the GGA line are its fields 2 and 4.
\* Under a catalog that marks GGA_2 as GPS latitude (hemisphere in field 3)
\* and GGA_4 as GPS longitude (hemisphere in field 5), the line processed on
\* an empty registry leaves the primary measurements of fields 2 and 4 and
\* their decimal measurements, 48.117300 and 11.516667, negative for S and
\* W; a GPS hint on field 3 or 5 gives a primary measurement that holds the
\* hemisphere letter, and no decimal measurement.
\* ---------------------------------------------------------------------
GgaKeys ==
    {"GP_GGA_2", "GP_GGA_2_decimal", "GP_GGA_3", "GP_GGA_4", "GP_GGA_4_decimal",
     "GP_GGA_5"}

C18_GgaFields2And4 ==
    /\ ProcessedFromEmpty(Gga) =>
          /\ DOMAIN sensors = GgaKeys
          /\ sensors["GP_GGA_2"].state = StrState(<<"4", "8", "0", "7", ".", "0", "3", "8">>)
          /\ sensors["GP_GGA_4"].state
                 = StrState(<<"0", "1", "1", "3", "1", ".", "0", "0", "0">>)
          /\ sensors["GP_GGA_2_decimal"].state = FloatState(48117300)
          /\ sensors["GP_GGA_4_decimal"].state = FloatState(11516667)
          /\ sensors["GP_GGA_3"].state = StrState(<<"N">>)
          /\ sensors["GP_GGA_5"].state = StrState(<<"E">>)
    /\ ProcessedFromEmpty(GgaSouthWest) =>
          /\ DOMAIN sensors = GgaKeys
          /\ sensors["GP_GGA_2_decimal"].state = FloatState(-48117300)
          /\ sensors["GP_GGA_4_decimal"].state = FloatState(-11516667)

C18_Witness ==
    /\ ProcessedFromEmpty(Gga)
    /\ sensors["GP_GGA_2_decimal"].state = FloatState(48117300)
    /\ sensors["GP_GGA_4_decimal"].state = FloatState(11516667)
    /\ "GP_GGA_3_decimal" \notin DOMAIN sensors

\* ---------------------------------------------------------------------
\* C19: once the stop event is handled nothing changes the registry any
\* more: no line is upserted and no sweep changes an availability.
\* ---------------------------------------------------------------------
C19_StopFreezes ==
    [][reader = "stopped" => sensors' = sensors]_vars

\* The part of C19 that concerns the reader: no line is read after the stop
C19_ReaderStops ==
    [][reader = "stopped" =>
          /\ reader' = "stopped"
          /\ last'.op # "read"
          /\ last_processed' = last_processed
          /\ DOMAIN sensors' = DOMAIN sensors
          /\ \A k \in DOMAIN sensors :
                /\ sensors'[k].state = sensors[k].state
                /\ sensors'[k].last_updated = sensors[k].last_updated]_vars

\* ---------------------------------------------------------------------
\* C20: a sweep never runs while a sentence is being processed, and a
\* sentence never adds a key or upserts a field while a sweep runs: a sweep
\* changes availabilities only, of a registry no call is working on, and
\* while a call is in progress every change of the registry is an upsert
\* made by that call.
\* ---------------------------------------------------------------------
\* k was upserted by the step for the call in progress
UpsertedByCall(k) ==
    /\ inflight.active
    /\ k \in KeysOfTalker(TalkerOf(inflight.raw))
    /\ sensors'[k].last_updated = now
    /\ sensors'[k].available <=> ~IsNoneOrEmpty(sensors'[k].state)

C20_Atomic ==
    /\ [][last'.op = "sweep" =>
              /\ ~inflight.active
              /\ inflight' = inflight
              /\ DOMAIN sensors' = DOMAIN sensors
              /\ \A k \in DOMAIN sensors :
                    /\ sensors'[k].state = sensors[k].state
                    /\ sensors'[k].last_updated = sensors[k].last_updated]_vars
    /\ [][inflight.active =>
              \A k \in DOMAIN sensors' :
                  \/ k \in DOMAIN sensors /\ sensors'[k] = sensors[k]
                  \/ UpsertedByCall(k)]_vars

\* a sweep is due while the call for a sentence is between two fields
C20_Witness ==
    /\ inflight.active
    /\ inflight.idx > 1
    /\ ~LoopDone(inflight)
    /\ inflight.calls # <<>>
    /\ now >= sweepAt
    /\ \E k \in DOMAIN sensors : sensors[k].available /\ now - sensors[k].last_updated >= 240

\* ---------------------------------------------------------------------
\* C21: a sweep changes nothing but availability flags: the keys, the GPS
\* hints, the throttle stamps and every other attribute of every measurement
\* stay as they were.  An availability changes only in a sweep or in the
\* upsert of that measurement, so a measurement that was not upserted turns
\* unavailable only in a sweep.
\* ---------------------------------------------------------------------
\* The step upserted the measurement k
Upserted(step, k) ==
    step.op = "read" /\ step.processed /\ k \in CalledKeys(step)

C21_SweepFrame ==
    /\ [][last'.op = "sweep" =>
              /\ DOMAIN sensors' = DOMAIN sensors
              /\ \A k \in DOMAIN sensors :
                    sensors'[k] = [sensors[k] EXCEPT !.available = sensors'[k].available]
              /\ gps' = gps
              /\ last_processed' = last_processed]_vars
    /\ [][\A k \in DOMAIN sensors :
              sensors'[k].available # sensors[k].available =>
                  last'.op = "sweep" \/ Upserted(last', k)]_vars
    /\ [][\A k \in DOMAIN sensors :
              (sensors[k].available /\ ~sensors'[k].available /\ ~Upserted(last', k))
                  => /\ last'.op = "sweep"
                     /\ now - sensors[k].last_updated >= 240]_vars

\* a sweep has just turned a measurement with a value unavailable and left
\* a fresher one available
C21_Witness ==
    /\ last.op = "sweep"
    /\ \E k \in DOMAIN sensors :
          /\ ~sensors[k].available
          /\ ~IsNoneOrEmpty(sensors[k].state)
          /\ sensors[k].last_updated < now
    /\ \E k \in DOMAIN sensors :
          sensors[k].available /\ sensors[k].last_updated > 0
    /\ last_processed # Empty

\* ---------------------------------------------------------------------
\* C22: a measurement whose value is None or the empty string is never
\* available, whatever step came last; in particular not after a sweep.
\* ---------------------------------------------------------------------
C22_EmptyUnavailable ==
    \A k \in DOMAIN sensors :
        IsNoneOrEmpty(sensors[k].state) => ~sensors[k].available

\* ---------------------------------------------------------------------
\* C23: every decimal sensor, whether it was created by the sentence that
\* created its source measurement or by a later one, has the group and the
\* device name of its source and a name built from the source's description.
\* ---------------------------------------------------------------------
C23_DecimalInherits ==
    \A K \in DOMAIN gps :
        DecimalOf(K) \in DOMAIN sensors =>
            /\ sensors[DecimalOf(K)].group = sensors[K].group
            /\ sensors[DecimalOf(K)].device_name = sensors[K].device_name
            /\ sensors[DecimalOf(K)].name = sensors[K].name \o " Decimal Coversion"

\* ---------------------------------------------------------------------
\* C24: a failure to open the port or to read a line puts the loop to sleep
\* for 5 seconds, after which it reopens; bytes that are not UTF-8 are
\* skipped while the connection stays open; none of these steps changes the
\* registry, the GPS hints or the throttle stamps, so every line read later
\* passes or fails the gate on the stamps set before the failure.
\* ---------------------------------------------------------------------
\* The step changes neither the registry nor the throttle stamps
KeepsData ==
    /\ sensors' = sensors
    /\ gps' = gps
    /\ last_processed' = last_processed
    /\ addCount' = addCount

C24_TransportErrors ==
    /\ [][(reader \in {"connecting", "reading"} /\ reader' = "sleeping") =>
              /\ readerWake' = now + 5
              /\ last'.op # "read"
              /\ KeepsData]_vars
    /\ [][reader = "sleeping" =>
              /\ reader' \in {"sleeping", "connecting", "stopped"}
              /\ last'.op # "read"
              /\ last_processed' = last_processed
              /\ reader' = "connecting" => (now >= readerWake /\ KeepsData)]_vars
    /\ [][(last'.op = "read" /\ last'.raw = Undecodable) =>
              /\ reader = "reading"
              /\ reader' = "reading"
              /\ ~last'.processed
              /\ KeepsData]_vars
    /\ [][(last'.op = "read" /\ last'.raw \in AllLines) =>
              /\ reader = "reading"
              /\ last'.processed <=>
                     ShouldProcess(last_processed, ThrottleKey(Text[last'.raw]), now)]_vars
    /\ [][last_processed' # last_processed =>
              last'.op = "read" /\ last'.processed]_vars

\* the sleep after a failure is over and the loop is about to reopen, with
\* the measurements and the stamps of the lines read before the failure
C24_Witness ==
    /\ reader = "sleeping"
    /\ readerWake > ErrorSleep
    /\ now >= readerWake
    /\ last_processed # Empty
    /\ \E k \in DOMAIN sensors : sensors[k].available

====
